---- MODULE Spec2Model ----
(***************************************************************************)
(* Model of cv_robot.py: the capture / analyse / render loop of            *)
(* start_stream, the remote call of send_frame_to_mcp and the renderer     *)
(* pretty_print_response.                                                  *)
(*                                                                         *)
(* Python values are tagged records [t, v]; a dict is a function from its  *)
(* keys to values, so that dict.get is a lookup with a default and a       *)
(* missing attribute (.get on a non-dict) is an AttributeError.            *)
(***************************************************************************)
EXTENDS Integers, Sequences, FiniteSets, TLC

(***************************************************************************)
(* Bounds of the model.                                                    *)
(***************************************************************************)
\* at most MaxCaptures reads of cap.read() are counted; after that only
\* failing reads go on
MaxCaptures == 3
\* the clock stops at MaxTime seconds
MaxTime == 5
\* a capture or a remote call takes between 0 and MaxDur seconds
MaxDur == 1

\* asyncio.sleep(1)
PaceSeconds == 1

(***************************************************************************)
(* Python values.                                                          *)
(***************************************************************************)
PyStr(s) == [t |-> "str", v |-> s]
PyInt(n) == [t |-> "int", v |-> n]
PyList(q) == [t |-> "list", v |-> q]
PyDict(f) == [t |-> "dict", v |-> f]

\* {}
EmptyDict == [k \in {} |-> PyInt(0)]

\* d.get(k, default) on a dict d
Get(d, k, default) == IF k \in DOMAIN d THEN d[k] ELSE default

\* the outcome of evaluating a piece of code: a value or a raised exception
Return(val) == [k |-> "return", val |-> val, exc |-> [type |-> "", msg |-> <<>>]]
Raise(type, msg) == [k |-> "raise", val |-> PyDict(EmptyDict), exc |-> [type |-> type, msg |-> msg]]

\* variant: `except BaseException`, which also catches a cancellation
IsException_base(e) == e.type = e.type

\* `except Exception` catches everything but the BaseException-only classes
IsException(e) == e.type \notin {"KeyboardInterrupt", "CancelledError"}

(***************************************************************************)
(* Configuration.                                                          *)
(***************************************************************************)
ROBOT_ID == "Robot_CV"
TOOL_NAME == "CV_MCP_Server_robot_watch"

(***************************************************************************)
(* The reply of the remote tool.  A text is its characters (s) together    *)
(* with what ast.literal_eval makes of them: <<>> when the text is not a   *)
(* Python literal, <<value>> when it is.                                   *)
(***************************************************************************)
Text(s, lit) == [s |-> s, lit |-> lit]

\* response.content: a list of text items, or something that is no list (None)
ContentList(items) == [list |-> TRUE, items |-> items]
ContentNone == [list |-> FALSE, items |-> <<>>]

Response(is_error, content) == [is_error |-> is_error, content |-> content]

\* ast.literal_eval(raw_text)
literal_eval(text) ==
    IF Len(text.lit) = 0
    THEN Raise("SyntaxError", <<"invalid syntax (<unknown>, line 1)">>)
    ELSE Return(text.lit[1])

\* the keys of the dict returned at the end of the try block
ResultKeys ==
    {"robot_id", "file_size_bytes", "description", "environment",
     "indoor_or_outdoor", "lighting_condition", "human", "animals",
     "objects", "hazards"}

\* variant: every .get falls back to "N/A", as the renderer's lookups do
DefaultOf_na(key) == PyStr("N/A")

\* the top-level key of each result key, and its default
TopLevelKeys == {"robot_id", "file_size_bytes"}
DefaultOf(key) ==
    CASE key = "robot_id" -> PyStr("N/A")
      [] key = "file_size_bytes" -> PyInt(0)
      [] key = "objects" -> PyList(<<>>)
      [] OTHER -> PyStr("")

\* response.content[0].text if response.content and isinstance(..., list)
\* else "Unknown error"
error_text(response) ==
    IF response.content.list /\ Len(response.content.items) > 0
    THEN response.content.items[1].s
    ELSE "Unknown error"

\* variant: only the fields the reply holds are put in the returned dict
extract_fields_sparse(resp_dict) ==
    IF resp_dict.t # "dict"
    THEN Raise("AttributeError", <<"object has no attribute 'get'">>)
    ELSE LET result == Get(resp_dict.v, "result", PyDict(EmptyDict))
         IN  IF result.t # "dict"
             THEN Raise("AttributeError", <<"object has no attribute 'get'">>)
             ELSE Return(PyDict(
                    [key \in (TopLevelKeys \cap DOMAIN resp_dict.v)
                              \cup ((ResultKeys \ TopLevelKeys) \cap DOMAIN result.v) |->
                        IF key \in TopLevelKeys
                        THEN resp_dict.v[key]
                        ELSE result.v[key]]))

\* variant: an "objects" value that is no list is wrapped as [str(value)]
extract_fields_coerce(resp_dict) ==
    IF resp_dict.t # "dict"
    THEN Raise("AttributeError", <<"object has no attribute 'get'">>)
    ELSE LET result == Get(resp_dict.v, "result", PyDict(EmptyDict))
         IN  IF result.t # "dict"
             THEN Raise("AttributeError", <<"object has no attribute 'get'">>)
             ELSE Return(PyDict(
                    [key \in ResultKeys |->
                        IF key \in TopLevelKeys
                        THEN Get(resp_dict.v, key, DefaultOf(key))
                        ELSE IF key = "objects" /\ key \in DOMAIN result.v
                                /\ result.v[key].t # "list"
                        THEN PyList(<< IF result.v[key].t = "str" THEN result.v[key]
                                       ELSE PyStr(<<"str", result.v[key]>>) >>)
                        ELSE Get(result.v, key, DefaultOf(key))]))

\* lines 102-128: field-by-field extraction from the parsed reply
extract_fields(resp_dict) ==
    IF resp_dict.t # "dict"
    THEN Raise("AttributeError", <<"object has no attribute 'get'">>)
    ELSE LET result == Get(resp_dict.v, "result", PyDict(EmptyDict))
         IN  IF result.t # "dict"
             THEN Raise("AttributeError", <<"object has no attribute 'get'">>)
             ELSE Return(PyDict(
                    [key \in ResultKeys |->
                        IF key \in TopLevelKeys
                        THEN Get(resp_dict.v, key, DefaultOf(key))
                        ELSE Get(result.v, key, DefaultOf(key))]))

\* lines 92-128: the body of `async with MCP_CLIENT` once call_tool returned
handle_response(response) ==
    IF response.is_error
    THEN Raise("Exception", <<"MCP Tool Error: ", error_text(response)>>)
    ELSE IF ~response.content.list
    THEN Raise("TypeError", <<"'NoneType' object is not subscriptable">>)
    ELSE IF Len(response.content.items) = 0
    THEN Raise("IndexError", <<"list index out of range">>)
    ELSE LET parsed == literal_eval(response.content.items[1])
         IN  IF parsed.k = "raise" THEN parsed ELSE extract_fields(parsed.val)

\* variant: no except clause, the exception travels on to the caller
except_clause_reraise(outcome) ==
    [k |-> outcome.k, val |-> outcome.val, exc |-> outcome.exc, reports |-> <<>>]

\* lines 130-134: the except clause; what send_frame_to_mcp gives its caller
\* for the outcome of its try block, and what it prints on the way
except_clause(outcome) ==
    IF outcome.k = "raise" /\ IsException(outcome.exc)
    THEN [k |-> "return", val |-> PyDict(EmptyDict), exc |-> outcome.exc,
          reports |-> << <<"Error calling MCP Tool:">> \o outcome.exc.msg >>]
    ELSE [k |-> outcome.k, val |-> outcome.val, exc |-> outcome.exc,
          reports |-> <<>>]

\* lines 88-134: send_frame_to_mcp, given what the awaited call produced:
\* an exception raised by the transport, or a response
send_frame_to_mcp(call) ==
    except_clause(IF call.k = "raise" THEN call ELSE handle_response(call.val))

(***************************************************************************)
(* pretty_print_response.                                                  *)
(***************************************************************************)
\* str(x)
str(x) == IF x.t = "str" THEN x ELSE PyStr(<<"str", x>>)

\* ", ".join(objects_list): every element must be a str
join(objects_list) ==
    IF \A i \in 1..Len(objects_list) : objects_list[i].t = "str"
    THEN Return(PyStr([i \in 1..Len(objects_list) |-> objects_list[i].v]))
    ELSE Raise("TypeError", <<"sequence item: expected str instance">>)

\* lines 53-73: the rows of the table, or the exception that escapes
pretty_print_response(resp) ==
    LET objects_list == Get(resp, "objects", PyList(<<>>))
        objects_str == IF objects_list.t = "list" THEN join(objects_list.v)
                       ELSE Return(str(objects_list))
    IN  IF objects_str.k = "raise" THEN objects_str
        ELSE Return(PyList(
               [i \in 1..10 |->
                  CASE i = 1 -> str(Get(resp, "robot_id", PyStr("N/A")))
                    [] i = 2 -> str(Get(resp, "file_size_bytes", PyStr("N/A")))
                    [] i = 3 -> str(Get(resp, "description", PyStr("N/A")))
                    [] i = 4 -> str(Get(resp, "environment", PyStr("N/A")))
                    [] i = 5 -> str(Get(resp, "indoor_or_outdoor", PyStr("N/A")))
                    [] i = 6 -> str(Get(resp, "lighting_condition", PyStr("N/A")))
                    [] i = 7 -> str(Get(resp, "human", PyStr("N/A")))
                    [] i = 8 -> str(Get(resp, "animals", PyStr("N/A")))
                    [] i = 9 -> objects_str.val
                    [] OTHER -> str(Get(resp, "hazards", PyStr("N/A")))]))

(***************************************************************************)
(* What the remote end can do with one call.                               *)
(***************************************************************************)
HallwayResult ==
    ("description" :> PyStr("a hallway"))
    @@ ("objects" :> PyList(<<PyStr("chair"), PyStr("door")>>))
FullResult ==
    [key \in ResultKeys \ TopLevelKeys |->
        IF key = "objects" THEN PyList(<<PyStr("cone")>>) ELSE PyStr("yes")]

TextHallway ==
    Text("{'robot_id': 'R1', 'file_size_bytes': 12345, 'result': {...}}",
         << PyDict(("robot_id" :> PyStr("R1"))
                   @@ ("file_size_bytes" :> PyInt(12345))
                   @@ ("result" :> PyDict(HallwayResult))) >>)
TextFull ==
    Text("{'robot_id': 'R2', 'file_size_bytes': 7, 'result': {all}}",
         << PyDict(("robot_id" :> PyStr("R2"))
                   @@ ("file_size_bytes" :> PyInt(7))
                   @@ ("result" :> PyDict(FullResult))) >>)
TextEmptyDict == Text("{}", << PyDict(EmptyDict) >>)
TextList == Text("[1]", << PyList(<<PyInt(1)>>) >>)
TextResultNotDict ==
    Text("{'robot_id': 'R1', 'result': 'none'}",
         << PyDict(("robot_id" :> PyStr("R1")) @@ ("result" :> PyStr("none"))) >>)
TextObjectsInts ==
    Text("{'result': {'objects': [1, 2]}}",
         << PyDict("result" :> PyDict("objects" :> PyList(<<PyInt(1), PyInt(2)>>))) >>)
TextObjectsStr ==
    Text("{'result': {'objects': 'chair'}}",
         << PyDict("result" :> PyDict("objects" :> PyStr("chair"))) >>)
TextGarbage == Text("<html>Bad Gateway</html>", <<>>)
TextRateLimited == Text("rate limited", <<>>)
TextInvalidToken == Text("invalid token", <<>>)

\* the responses call_tool can return
Responses ==
    { Response(FALSE, ContentList(<<txt>>)) :
        txt \in {TextHallway, TextFull, TextEmptyDict, TextList,
                 TextResultNotDict, TextObjectsInts, TextObjectsStr,
                 TextGarbage} }
    \cup { Response(TRUE, ContentList(<<txt>>)) :
             txt \in {TextRateLimited, TextInvalidToken} }
    \cup { Response(is_error, content) :
             is_error \in BOOLEAN, content \in {ContentList(<<>>), ContentNone} }

\* the exceptions the transport can raise while the session is being opened
\* or while the call is awaited
TransportFailures ==
    { Raise("ConnectionError", <<"all connection attempts failed">>),
      Raise("TimeoutError", <<"timed out">>) }

\* what `await MCP_CLIENT.call_tool(...)` can produce
CallOutcomes == TransportFailures \cup { Return(resp) : resp \in Responses }

(***************************************************************************)
(* Frames and payloads.                                                    *)
(***************************************************************************)
Images == {"imgA", "imgB"}

\* cv2.imencode(".jpg", frame) and base64.b64encode(jpeg.tobytes()).decode()
imencode(frame) == <<"jpg", frame>>
b64encode(jpeg) == <<"b64", jpeg>>

\* lines 82-86
Payload(hf_token, b64_img) ==
    [hf_token_input |-> hf_token, robot_id_input |-> ROBOT_ID,
     image_b64_input |-> b64_img]

(***************************************************************************)
(* State.                                                                  *)
(***************************************************************************)
VARIABLES
    pc,           \* where the program is
    now,          \* the clock, in seconds
    token,        \* HF_CV_ROBOT_TOKEN in the environment ("" when unset)
    camera,       \* "unopened", "open" or "released"
    captures,     \* number of cap.read() calls so far
    ret,          \* ret of the last cap.read()
    frame,        \* <<frame>> read in this iteration, <<>> when none
    ok,           \* <<ok>> of cv2.imencode in this iteration, <<>> when not run
    request,      \* <<payload>> of the calls issued in this iteration
    sessionOpen,  \* the MCP_CLIENT session is open
    call,         \* what the awaited calls of this iteration produced
    resp,         \* <<what send_frame_to_mcp gave back>> in this iteration
    reports,      \* error lines printed in this iteration
    presented,    \* the records handed to pretty_print_response in this iteration
    table,        \* <<rows printed>> in this iteration
    callStart,    \* time at which the latest send_frame_to_mcp was entered (-1: never)
    lastReturn,   \* time at which the previous send_frame_to_mcp finished (-1: never)
    escaped,      \* <<exception>> that left stream_loop
    interruptedAt,\* pc at which Ctrl+C arrived ("" when it did not)
    cancelPending,\* Ctrl+C cancelled the loop task, which has not reached an await yet
    stopLog,      \* resources released since the loop was left, in order
    notice        \* last line printed by start_stream itself

vars ==
    <<pc, now, token, camera, captures, ret, frame, ok, request, sessionOpen,
      call, resp, reports, presented, table, callStart, lastReturn, escaped,
      interruptedAt, cancelPending, stopLog, notice>>

iterVars == <<ret, frame, ok, request, call, resp, reports, presented, table>>
stopVars == <<escaped, interruptedAt, cancelPending, stopLog>>

Running == {"Capturing", "Encoding", "Analyzing", "Presenting", "Pacing"}

Init ==
    /\ pc = "Load"
    /\ now = 0
    /\ token \in {"", "hf_token"}
    /\ camera = "unopened"
    /\ captures = 0
    /\ ret = FALSE
    /\ frame = <<>>
    /\ ok = <<>>
    /\ request = <<>>
    /\ sessionOpen = FALSE
    /\ call = <<>>
    /\ resp = <<>>
    /\ reports = <<>>
    /\ presented = <<>>
    /\ table = <<>>
    /\ callStart = -1
    /\ lastReturn = -1
    /\ escaped = <<>>
    /\ interruptedAt = ""
    /\ cancelPending = FALSE
    /\ stopLog = <<>>
    /\ notice = ""

(***************************************************************************)
(* Startup.                                                                *)
(***************************************************************************)
\* lines 16-35: the module body; a missing token raises before anything runs
LoadModule ==
    /\ pc = "Load"
    /\ IF token = ""
       THEN /\ pc' = "Crashed"
            /\ escaped' = << [type |-> "ValueError",
                              msg |-> <<"HF_TOKEN not found. Check .env file.">>] >>
       ELSE /\ pc' = "Main"
            /\ escaped' = escaped
    /\ UNCHANGED <<now, token, camera, captures, iterVars, sessionOpen,
                   callStart, lastReturn, interruptedAt, cancelPending, stopLog, notice>>

\* variant: the `return` after "Camera not opened." is missing
start_stream_noReturn(opened) ==
    /\ pc = "Main"
    /\ camera' = IF opened THEN "open" ELSE "unopened"
    /\ notice' = IF opened THEN "Camera streaming... Press Ctrl+C to stop."
                 ELSE "Camera not opened."
    /\ pc' = "Idle"
    /\ UNCHANGED <<now, token, captures, iterVars, sessionOpen, callStart,
                   lastReturn, stopVars>>

\* lines 142-147: open the camera, give up when it did not open
start_stream(opened) ==
    /\ pc = "Main"
    /\ IF opened
       THEN /\ camera' = "open"
            /\ notice' = "Camera streaming... Press Ctrl+C to stop."
            /\ pc' = "Idle"
       ELSE /\ camera' = "unopened"
            /\ notice' = "Camera not opened."
            /\ pc' = "Returned"
    /\ UNCHANGED <<now, token, captures, iterVars, sessionOpen, callStart,
                   lastReturn, stopVars>>

\* line 168: asyncio.run(stream_loop()) enters `while True`
run_loop ==
    /\ pc = "Idle"
    /\ pc' = "Capturing"
    /\ UNCHANGED <<now, token, camera, captures, iterVars, sessionOpen,
                   callStart, lastReturn, stopVars, notice>>

(***************************************************************************)
(* stream_loop, one step per stage of an iteration.                        *)
(***************************************************************************)
\* lines 150-153: ret, frame = cap.read(); `continue` when not ret.
\* Once MaxCaptures reads have been counted only failing reads go on, uncounted:
\* the loop spinning on a camera that yields nothing.
Capture(r, img, d) ==
    /\ pc = "Capturing"
    /\ captures < MaxCaptures \/ ~r
    /\ now + d <= MaxTime
    /\ now' = now + d
    /\ captures' = IF captures < MaxCaptures THEN captures + 1 ELSE captures
    /\ ret' = r
    /\ frame' = IF r THEN << [seq |-> captures + 1, img |-> img] >> ELSE <<>>
    /\ pc' = IF r THEN "Encoding" ELSE "Capturing"
    /\ ok' = <<>>
    /\ request' = <<>>
    /\ call' = <<>>
    /\ resp' = <<>>
    /\ reports' = <<>>
    /\ presented' = <<>>
    /\ table' = <<>>
    /\ UNCHANGED <<token, camera, sessionOpen, callStart, lastReturn,
                   stopVars, notice>>

\* lines 156-162 and 82-89: encode, `continue` when not ok, otherwise build the
\* payload and enter send_frame_to_mcp up to `async with MCP_CLIENT`
Encode(okv) ==
    /\ pc = "Encoding"
    /\ ok' = <<okv>>
    /\ IF okv
       THEN /\ request' = Append(request, Payload(token, b64encode(imencode(frame[1]))))
            /\ callStart' = now
            /\ pc' = "Analyzing"
       ELSE /\ request' = request
            /\ callStart' = callStart
            /\ pc' = "Capturing"
    /\ UNCHANGED <<now, token, camera, captures, ret, frame, sessionOpen, call,
                   resp, reports, presented, table, lastReturn, stopVars, notice>>

\* variant: the session is closed on the success path only
LeaveCall_leak(co, d) ==
    LET r == send_frame_to_mcp(co)
    IN  /\ now + d <= MaxTime
        /\ now' = now + d
        /\ lastReturn' = now + d
        /\ call' = Append(call, co)
        /\ sessionOpen' = IF r.exc.type = "" THEN FALSE ELSE sessionOpen
        /\ reports' = reports \o r.reports
        /\ IF r.k = "return"
           THEN /\ resp' = <<r.val>>
                /\ pc' = "Presenting"
                /\ escaped' = escaped
           ELSE /\ resp' = resp
                /\ pc' = "Unwinding"
                /\ escaped' = <<r.exc>>
        /\ UNCHANGED <<token, camera, captures, ret, frame, ok, request,
                       presented, table, callStart, interruptedAt, cancelPending, stopLog,
                       notice>>

\* variant: a failed call is issued again at once, inside the same iteration
LeaveCall_retry(co, d) ==
    LET r == send_frame_to_mcp(co)
    IN  /\ now + d <= MaxTime
        /\ now' = now + d
        /\ lastReturn' = now + d
        /\ call' = Append(call, co)
        /\ sessionOpen' = FALSE
        /\ reports' = reports \o r.reports
        /\ IF r.k = "return" /\ r.exc.type = ""
           THEN /\ resp' = <<r.val>>
                /\ pc' = "Presenting"
                /\ request' = request
                /\ escaped' = escaped
           ELSE IF r.k = "return"
           THEN /\ resp' = resp
                /\ pc' = IF Len(request) < 2 THEN "Analyzing" ELSE "Presenting"
                /\ request' = IF Len(request) < 2 THEN Append(request, request[1])
                              ELSE request
                /\ escaped' = escaped
           ELSE /\ resp' = resp
                /\ pc' = "Unwinding"
                /\ request' = request
                /\ escaped' = <<r.exc>>
        /\ UNCHANGED <<token, camera, captures, ret, frame, ok,
                       presented, table, callStart, interruptedAt, cancelPending, stopLog,
                       notice>>

\* send_frame_to_mcp leaves its try block with the outcome `co` of the awaited
\* call: the session is closed, the except clause runs, and the loop goes on
\* to line 163 unless an exception is still travelling
LeaveCall(co, d) ==
    LET r == send_frame_to_mcp(co)
    IN  /\ now + d <= MaxTime
        /\ now' = now + d
        /\ lastReturn' = now + d
        /\ call' = Append(call, co)
        /\ sessionOpen' = FALSE
        /\ reports' = reports \o r.reports
        /\ IF r.k = "return"
           THEN /\ resp' = <<r.val>>
                /\ pc' = "Presenting"
                /\ escaped' = escaped
           ELSE /\ resp' = resp
                /\ pc' = "Unwinding"
                /\ escaped' = <<r.exc>>
        /\ UNCHANGED <<token, camera, captures, ret, frame, ok, request,
                       presented, table, callStart, interruptedAt, cancelPending, stopLog,
                       notice>>

\* line 89: `async with MCP_CLIENT` opens the session, or fails to
Connect(co, d) ==
    /\ pc = "Analyzing"
    /\ ~sessionOpen
    /\ ~cancelPending
    /\ IF co.k = "return"
       THEN /\ d = 0
            /\ sessionOpen' = TRUE
            /\ UNCHANGED <<pc, now, token, camera, captures, iterVars,
                           callStart, lastReturn, stopVars, notice>>
       ELSE LeaveCall(co, d)

\* lines 90-134: call_tool comes back (or raises) and the reply is processed
Reply(co, d) ==
    /\ pc = "Analyzing"
    /\ sessionOpen
    /\ ~cancelPending
    /\ LeaveCall(co, d)

\* line 163: pretty_print_response(resp)
Present ==
    /\ pc = "Presenting"
    /\ presented' = Append(presented, resp[1].v)
    /\ LET out == pretty_print_response(resp[1].v)
       IN  IF out.k = "return"
           THEN /\ table' = <<out.val>>
                /\ pc' = "Pacing"
                /\ escaped' = escaped
           ELSE /\ table' = table
                /\ pc' = "Unwinding"
                /\ escaped' = <<out.exc>>
    /\ UNCHANGED <<now, token, camera, captures, ret, frame, ok, request,
                   sessionOpen, call, resp, reports, callStart, lastReturn,
                   interruptedAt, cancelPending, stopLog, notice>>

\* variant: the sleep is left out
Pace_nosleep(d) ==
    /\ pc = "Pacing"
    /\ ~cancelPending
    /\ now + d <= MaxTime
    /\ now' = now + d
    /\ pc' = "Capturing"
    /\ UNCHANGED <<token, camera, captures, iterVars, sessionOpen, callStart,
                   lastReturn, stopVars, notice>>

\* line 165: await asyncio.sleep(1), then back to the top of `while True`
Pace(d) ==
    /\ pc = "Pacing"
    /\ ~cancelPending
    /\ now + PaceSeconds + d <= MaxTime
    /\ now' = now + PaceSeconds + d
    /\ pc' = "Capturing"
    /\ UNCHANGED <<token, camera, captures, iterVars, sessionOpen, callStart,
                   lastReturn, stopVars, notice>>

(***************************************************************************)
(* Leaving the loop.                                                       *)
(***************************************************************************)
\* variant: the camera is released as soon as Ctrl+C arrives, before the
\* cancelled call has closed its session
KeyboardInterrupt_cameraFirst ==
    /\ pc \in Running
    /\ interruptedAt' = IF cancelPending THEN interruptedAt ELSE pc
    /\ cancelPending' = FALSE
    /\ pc' = "Unwinding"
    /\ escaped' = << [type |-> "KeyboardInterrupt", msg |-> <<>>] >>
    /\ camera' = "released"
    /\ sessionOpen' = FALSE
    /\ stopLog' = IF sessionOpen THEN stopLog \o <<"camera", "transport">>
                  ELSE Append(stopLog, "camera")
    /\ UNCHANGED <<now, token, captures, iterVars, callStart, lastReturn, notice>>

\* Ctrl+C while asyncio.run is running: the loop task is cancelled where it
\* stands.  Inside send_frame_to_mcp the cancellation passes the except clause
\* (it is no Exception) and `async with` closes the session on the way out.
KeyboardInterrupt ==
    /\ pc \in Running
    /\ interruptedAt' = IF cancelPending THEN interruptedAt ELSE pc
    /\ cancelPending' = FALSE
    /\ LET r == send_frame_to_mcp(Raise("CancelledError", <<>>))
       IN  IF pc = "Analyzing" /\ r.k = "return"
           THEN /\ pc' = "Presenting"
                /\ resp' = <<r.val>>
                /\ reports' = reports \o r.reports
                /\ escaped' = escaped
           ELSE /\ pc' = "Unwinding"
                /\ resp' = resp
                /\ reports' = reports
                /\ escaped' = << [type |-> "KeyboardInterrupt", msg |-> <<>>] >>
    /\ sessionOpen' = FALSE
    /\ stopLog' = IF sessionOpen THEN Append(stopLog, "transport") ELSE stopLog
    /\ UNCHANGED <<now, token, camera, captures, ret, frame, ok, request, call,
                   presented, table, callStart, lastReturn, notice>>

\* Ctrl+C handled by asyncio.run itself (the runner's SIGINT handler): it only
\* cancels the loop task.  Where the task is suspended in an await the
\* cancellation is raised there at once (KeyboardInterrupt above); where it
\* is running straight-line code (read, encode, render) the cancellation stays
\* pending until the task reaches its next await.
CancelRequested ==
    /\ pc \in {"Capturing", "Encoding", "Presenting"}
    /\ ~cancelPending
    /\ cancelPending' = TRUE
    /\ interruptedAt' = pc
    /\ UNCHANGED <<pc, now, token, camera, captures, iterVars, sessionOpen,
                   callStart, lastReturn, escaped, stopLog, notice>>

\* a pending cancellation is raised at the await the task reaches next
\* (line 89, 90 or 165)
DeliverCancel ==
    /\ cancelPending
    /\ pc \in {"Analyzing", "Pacing"}
    /\ KeyboardInterrupt

\* variant: cap.release() sits in the except clause instead of a finally
Finally_exceptOnly ==
    /\ pc = "Unwinding"
    /\ IF escaped[1].type = "KeyboardInterrupt"
       THEN /\ notice' = "Streaming stopped by user."
            /\ pc' = "Stopped"
            /\ camera' = "released"
            /\ stopLog' = Append(stopLog, "camera")
       ELSE /\ notice' = notice
            /\ pc' = "Crashed"
            /\ camera' = camera
            /\ stopLog' = stopLog
    /\ UNCHANGED <<now, token, captures, iterVars, sessionOpen, callStart,
                   lastReturn, escaped, interruptedAt, cancelPending>>

\* lines 169-173: except KeyboardInterrupt, then finally: cap.release()
Finally ==
    /\ pc = "Unwinding"
    /\ IF escaped[1].type = "KeyboardInterrupt"
       THEN /\ notice' = "Streaming stopped by user."
            /\ pc' = "Stopped"
       ELSE /\ notice' = notice
            /\ pc' = "Crashed"
    /\ camera' = "released"
    /\ stopLog' = Append(stopLog, "camera")
    /\ UNCHANGED <<now, token, captures, iterVars, sessionOpen, callStart,
                   lastReturn, escaped, interruptedAt, cancelPending>>

Next ==
    \/ LoadModule
    \/ \E opened \in BOOLEAN : start_stream(opened)
    \/ run_loop
    \/ \E r \in BOOLEAN, img \in Images, d \in 0..MaxDur : Capture(r, img, d)
    \/ \E okv \in BOOLEAN : Encode(okv)
    \/ \E co \in TransportFailures \cup {Return(PyStr("connected"))}, d \in 0..MaxDur :
          Connect(co, d)
    \/ \E co \in CallOutcomes, d \in 0..MaxDur : Reply(co, d)
    \/ Present
    \/ \E d \in 0..MaxDur : Pace(d)
    \/ KeyboardInterrupt
    \/ CancelRequested
    \/ DeliverCancel
    \/ Finally

Spec == Init /\ [][Next]_vars

\* the steps the program takes by itself: the straight-line stages of the
\* loop and the sleep
LoopStep ==
    \/ \E r \in BOOLEAN, img \in Images, d \in 0..MaxDur : Capture(r, img, d)
    \/ \E okv \in BOOLEAN : Encode(okv)
    \/ Present
    \/ \E d \in 0..MaxDur : Pace(d)

\* the program keeps running: the loop takes its next step, a pending
\* cancellation is raised at the await that is reached, and an exception
\* unwinds through the except and finally clauses of start_stream.  Ctrl+C
\* and the remote end's reply are up to the environment.
LiveSpec ==
    Spec /\ WF_vars(LoopStep) /\ WF_vars(DeliverCancel) /\ WF_vars(Finally)

(***************************************************************************)
(* The error classes of an iteration, read off what the iteration was      *)
(* given: the read flag, the encode flag and the outcome of the call.      *)
(***************************************************************************)
NoFrame == captures > 0 /\ ~ret
EncodeFailure == ok = <<FALSE>>
TransportError == call # <<>> /\ call[1].k = "raise"
RemoteToolError ==
    call # <<>> /\ call[1].k = "return" /\ call[1].val.is_error
MalformedReplyError ==
    /\ call # <<>> /\ call[1].k = "return" /\ ~call[1].val.is_error
    /\ \/ ~call[1].val.content.list
       \/ Len(call[1].val.content.items) = 0
       \/ Len(call[1].val.content.items[1].lit) = 0
       \/ call[1].val.content.items[1].lit[1].t # "dict"
       \/ /\ "result" \in DOMAIN call[1].val.content.items[1].lit[1].v
          /\ call[1].val.content.items[1].lit[1].v["result"].t # "dict"
AnalysisError == TransportError \/ RemoteToolError \/ MalformedReplyError

\* the diagnostic texts that came with a failed call: the transport's message,
\* or the text of an error reply
DiagnosticTexts ==
    IF TransportError
    THEN {call[1].exc.msg[i] : i \in DOMAIN call[1].exc.msg}
    ELSE IF RemoteToolError /\ call[1].val.content.list
    THEN {call[1].val.content.items[i].s : i \in DOMAIN call[1].val.content.items}
    ELSE {}

KeyboardInterruptExc == [type |-> "KeyboardInterrupt", msg |-> <<>>]

(***************************************************************************)
(* Properties.                                                             *)
(***************************************************************************)

\* C1: whenever cap.read() yields no frame, the loop goes to Pacing before it
\* captures again; it never goes from a failed capture straight to the next
\* capture.
C1_NoFrameGoesToPacing ==
    [][(pc = "Capturing" /\ captures' = captures + 1 /\ ~ret') => pc' = "Pacing"]_vars

\* C2: whatever the kind of analysis error (transport failure, error reply,
\* unparseable reply), exactly one report is printed, it holds the diagnostic
\* text that came with the failure unchanged, the loop is not stopped by the
\* failure (only Ctrl+C can stop such an iteration), and the iteration goes
\* on to Pacing and from there to the next capture.
C2_ErrorReported ==
    AnalysisError =>
        /\ Len(reports) = 1
        /\ \A txt \in DiagnosticTexts :
              \E i \in DOMAIN reports[1] : reports[1][i] = txt
        /\ pc \in Running \/ (escaped = <<KeyboardInterruptExc>> /\ interruptedAt # "")
C2_ErrorThenPacing ==
    (AnalysisError /\ pc' # pc /\ interruptedAt' = "") =>
        \/ pc = "Presenting" /\ pc' = "Pacing"
        \/ pc = "Pacing" /\ pc' = "Capturing"
        \/ pc = "Capturing" /\ captures' = captures + 1
C2_AnalysisErrorNeverStopsLoop ==
    [](C2_ErrorReported) /\ [][C2_ErrorThenPacing]_vars
C2_Witness ==
    /\ pc = "Capturing"
    /\ call = << Return(Response(TRUE, ContentList(<<TextRateLimited>>))) >>
    /\ reports = << <<"Error calling MCP Tool:", "MCP Tool Error: ", "rate limited">> >>

\* C3: in an iteration whose analysis call ended in an error, nothing is
\* handed to the Presenter.
C3_NoRecordPresentedOnError ==
    AnalysisError => presented = <<>>

\* C4: every record handed to the Presenter has all ten result fields.
C4_PresentedRecordsComplete ==
    \A i \in DOMAIN presented : DOMAIN presented[i] = ResultKeys

\* C5 as stated: once the loop has been left, a call issued in the last
\* iteration has run to its own completion or failure.
C5_InFlightCallCompletes ==
    pc \in {"Unwinding", "Stopped"} => Len(call) = Len(request)
\* C5 as amended: Ctrl+C is observed where the loop stands; when it arrives
\* while a call is in flight the call is abandoned: the session is closed, no
\* outcome of the call is processed, nothing is presented for the iteration,
\* and the loop is on its way to Stopped with KeyboardInterrupt.
C5_InterruptAbandonsCall ==
    interruptedAt = "Analyzing" =>
        /\ pc \in {"Unwinding", "Stopped"}
        /\ escaped = <<KeyboardInterruptExc>>
        /\ ~sessionOpen
        /\ Len(request) = 1 /\ call = <<>> /\ resp = <<>>
        /\ reports = <<>> /\ presented = <<>>
C5_Witness ==
    /\ interruptedAt = "Analyzing"
    /\ pc = "Stopped"
    /\ stopLog = <<"transport", "camera">>
    /\ notice = "Streaming stopped by user."

\* C6 as stated: on the way to Stopped the camera is released first and a
\* transport session still held after it.
C6_CameraReleasedFirst ==
    stopLog \in {<<>>, <<"camera">>, <<"camera", "transport">>}
\* C6 as amended: on the way to Stopped a transport session still held is
\* released first and the camera after it; the camera is never released while
\* a session is open, and in Stopped both are released.
C6_TransportReleasedFirst ==
    /\ stopLog \in {<<>>, <<"transport">>, <<"camera">>, <<"transport", "camera">>}
    /\ camera = "released" => ~sessionOpen
    /\ pc = "Stopped" => (camera = "released" /\ stopLog[Len(stopLog)] = "camera")
C6_Witness ==
    /\ pc = "Stopped"
    /\ stopLog = <<"transport", "camera">>
    /\ camera = "released"
    /\ ~sessionOpen

\* C7: an iteration that ran into a recoverable error (no frame, encode
\* failure, or any analysis error) has printed a report.
C7_RecoverableErrorReported ==
    (NoFrame \/ EncodeFailure \/ AnalysisError) => reports # <<>>

\* C8: outside Analyzing no transport session is open: every call closes the
\* session it opened, on every way out, and none carries over to the next frame.
C8_NoSessionOutsideAnalyzing ==
    pc # "Analyzing" => ~sessionOpen
C8_Witness ==
    /\ pc = "Pacing"
    /\ captures = 2
    /\ RemoteToolError
    /\ ~sessionOpen

\* C9: an iteration issues at most one analysis call, its payload is the
\* encoding of the frame read in that same iteration, and at most one call is
\* in flight.
C9_OneCallPerIteration ==
    /\ Len(request) <= 1
    /\ Len(request) - Len(call) \in {0, 1}
    /\ sessionOpen => Len(request) - Len(call) = 1
    /\ request # <<>> =>
          /\ ret /\ ok = <<TRUE>>
          /\ frame # <<>> /\ frame[1].seq = captures
          /\ request[1].image_b64_input = <<"b64", <<"jpg", frame[1]>>>>
C9_Witness ==
    /\ pc = "Analyzing"
    /\ sessionOpen
    /\ captures = 2
    /\ Len(request) = 1 /\ call = <<>>

\* C10: a call is never entered less than one pacing delay (PaceSeconds)
\* after the previous call finished, however that call ended.
C10_PacingBetweenCalls ==
    (pc = "Analyzing" /\ lastReturn >= 0) => callStart - lastReturn >= PaceSeconds
C10_Witness ==
    /\ pc = "Analyzing"
    /\ lastReturn >= 0
    /\ callStart - lastReturn = PaceSeconds

\* C11: when cv2.imencode fails, the iteration issues no call, presents
\* nothing, and the loop goes to Pacing before it captures again.
C11_EncodeFailureGoesToPacing ==
    [][(pc = "Encoding" /\ ok' = <<FALSE>>) =>
          (request' = <<>> /\ presented' = <<>> /\ pc' = "Pacing")]_vars

\* C12: a failure inside pretty_print_response does not stop the loop: unless
\* Ctrl+C arrives, the step out of Presenting leads to Pacing.
C12_PresentingReachesPacing ==
    [][(pc = "Presenting" /\ pc' # pc /\ interruptedAt' = "") => pc' = "Pacing"]_vars

(***************************************************************************)
(* send_frame_to_mcp and pretty_print_response on their own: the reply is  *)
(* drawn at the start from every combination of absent, well-shaped and    *)
(* wrongly shaped fields, and from the failures of CallOutcomes.           *)
(***************************************************************************)
\* the six detail fields that are only ever absent or a string
PlainKeys ==
    {"description", "environment", "indoor_or_outdoor", "lighting_condition",
     "human", "animals"}

\* a field that the reply does not hold
Absent == [t |-> "absent", v |-> 0]

ObjectsOptions ==
    {Absent, PyList(<<PyStr("chair"), PyStr("door")>>), PyList(<<>>),
     PyStr("chair"), PyInt(3), PyList(<<PyInt(1), PyInt(2)>>)}
HazardsOptions == {Absent, PyStr("hazards"), PyInt(0)}
RobotIdOptions == {Absent, PyStr("R1"), PyInt(7)}
FileSizeOptions == {Absent, PyInt(12345), PyStr("big")}

\* the dicts the reply can hold under "result"
ResultDicts ==
    { [key \in present \cup (IF objects = Absent THEN {} ELSE {"objects"})
                       \cup (IF hazards = Absent THEN {} ELSE {"hazards"}) |->
          IF key = "objects" THEN objects
          ELSE IF key = "hazards" THEN hazards
          ELSE PyStr(key)] :
        present \in SUBSET PlainKeys,
        objects \in ObjectsOptions,
        hazards \in HazardsOptions }

ResultOptions == {Absent, PyStr("none"), PyList(<<>>)} \cup {PyDict(rd) : rd \in ResultDicts}

\* the dicts a reply text can be the literal of
ReplyDicts ==
    { [key \in (IF robot_id = Absent THEN {} ELSE {"robot_id"})
               \cup (IF file_size = Absent THEN {} ELSE {"file_size_bytes"})
               \cup (IF result = Absent THEN {} ELSE {"result"}) |->
          IF key = "robot_id" THEN robot_id
          ELSE IF key = "file_size_bytes" THEN file_size
          ELSE result] :
        robot_id \in RobotIdOptions,
        file_size \in FileSizeOptions,
        result \in ResultOptions }

NormInputs ==
    CallOutcomes
    \cup { Return(Response(FALSE, ContentList(<<Text("<dict literal>", <<PyDict(rd)>>)>>))) :
             rd \in ReplyDicts }

InitNorm ==
    /\ pc = "Called"
    /\ call \in {<<co>> : co \in NormInputs}
    /\ now = 0
    /\ token = "hf_token"
    /\ camera = "open"
    /\ captures = 1
    /\ ret = TRUE
    /\ frame = << [seq |-> 1, img |-> "imgA"] >>
    /\ ok = <<TRUE>>
    /\ request = << Payload("hf_token", b64encode(imencode([seq |-> 1, img |-> "imgA"]))) >>
    /\ sessionOpen = FALSE
    /\ resp = <<>>
    /\ reports = <<>>
    /\ presented = <<>>
    /\ table = <<>>
    /\ callStart = 0
    /\ lastReturn = -1
    /\ escaped = <<>>
    /\ interruptedAt = ""
    /\ cancelPending = FALSE
    /\ stopLog = <<>>
    /\ notice = "Camera streaming... Press Ctrl+C to stop."

\* lines 88-134 applied to the reply in `call`
Normalize ==
    /\ pc = "Called"
    /\ LET r == send_frame_to_mcp(call[1])
       IN  /\ reports' = r.reports
           /\ IF r.k = "return"
              THEN resp' = <<r.val>> /\ escaped' = escaped /\ pc' = "Normalized"
              ELSE resp' = resp /\ escaped' = <<r.exc>> /\ pc' = "Raised"
    /\ UNCHANGED <<now, token, camera, captures, ret, frame, ok, request,
                   sessionOpen, call, presented, table, callStart, lastReturn,
                   interruptedAt, cancelPending, stopLog, notice>>

\* lines 38-73 applied to what send_frame_to_mcp returned
Render ==
    /\ pc = "Normalized"
    /\ resp # <<>>
    /\ presented' = Append(presented, resp[1].v)
    /\ LET out == pretty_print_response(resp[1].v)
       IN  IF out.k = "return"
           THEN table' = <<out.val>> /\ escaped' = escaped /\ pc' = "Rendered"
           ELSE table' = table /\ escaped' = <<out.exc>> /\ pc' = "Raised"
    /\ UNCHANGED <<now, token, camera, captures, ret, frame, ok, request,
                   sessionOpen, call, resp, reports, callStart, lastReturn,
                   interruptedAt, cancelPending, stopLog, notice>>

NextNorm == Normalize \/ Render

SpecNorm == InitNorm /\ [][NextNorm]_vars

\* the reply in `call` parsed into a dict: the dict, and its "result" dict
ParsedDict ==
    /\ call[1].k = "return" /\ ~call[1].val.is_error
    /\ call[1].val.content.list /\ Len(call[1].val.content.items) > 0
    /\ Len(call[1].val.content.items[1].lit) = 1
    /\ call[1].val.content.items[1].lit[1].t = "dict"
ReplyDict == call[1].val.content.items[1].lit[1].v
ResultIsDict == "result" \in DOMAIN ReplyDict => ReplyDict["result"].t = "dict"
ReplyResult == IF "result" \in DOMAIN ReplyDict THEN ReplyDict["result"].v ELSE EmptyDict

\* the defaults of the AnalysisResult table
TableDefault(key) ==
    CASE key = "robot_id" -> PyStr("N/A")
      [] key = "file_size_bytes" -> PyInt(0)
      [] key = "objects" -> PyList(<<>>)
      [] OTHER -> PyStr("")

\* the type the AnalysisResult table gives a field
WellTyped(key, val) ==
    CASE key = "file_size_bytes" -> val.t = "int"
      [] key = "objects" ->
            val.t = "list" /\ \A i \in DOMAIN val.v : val.v[i].t = "str"
      [] OTHER -> val.t = "str"

\* C13: for a reply that parses into a dict (with "result", when present, a
\* dict) and lacks any subset of the fields, what send_frame_to_mcp returns
\* has all ten keys, every missing field at its table default, every present
\* field copied unchanged from its level, and no failure is raised or reported.
C13_MissingFieldsDefaulted ==
    (pc # "Called" /\ ParsedDict /\ ResultIsDict) =>
        /\ reports = <<>>
        /\ resp # <<>>
        /\ DOMAIN resp[1].v = ResultKeys
        /\ \A key \in TopLevelKeys :
              resp[1].v[key] = IF key \in DOMAIN ReplyDict THEN ReplyDict[key]
                               ELSE TableDefault(key)
        /\ \A key \in ResultKeys \ TopLevelKeys :
              resp[1].v[key] = IF key \in DOMAIN ReplyResult THEN ReplyResult[key]
                               ELSE TableDefault(key)
C13_Witness ==
    /\ pc = "Normalized"
    /\ ParsedDict /\ ResultIsDict
    /\ DOMAIN ReplyDict = {"file_size_bytes", "result"}
    /\ DOMAIN ReplyResult = {"description", "objects"}
    /\ resp[1].v["robot_id"] = PyStr("N/A")
    /\ resp[1].v["hazards"] = PyStr("")
    /\ resp[1].v["description"] = PyStr("description")

\* C14: for every reply that parses into a dict, wrongly shaped fields
\* included, send_frame_to_mcp reports no failure and returns a ten-key record
\* in which every field has the type of the table (a wrongly shaped field
\* having been replaced by its default).
C14_WrongShapeDefaulted ==
    (pc # "Called" /\ ParsedDict) =>
        /\ reports = <<>>
        /\ resp # <<>>
        /\ DOMAIN resp[1].v = ResultKeys
        /\ \A key \in ResultKeys : WellTyped(key, resp[1].v[key])

\* the reply holds an "objects" field that is not a list
ObjectsNotList ==
    /\ ParsedDict /\ ResultIsDict
    /\ "objects" \in DOMAIN ReplyResult
    /\ ReplyResult["objects"].t # "list"

C19_ReturnsFullOrEmpty ==
    pc # "Called" =>
        /\ resp # <<>>
        /\ DOMAIN resp[1].v \in {ResultKeys, {}}
        /\ (DOMAIN resp[1].v = {}) <=> (reports # <<>>)
        /\ AnalysisError => DOMAIN resp[1].v = {}
C19_Witness ==
    /\ pc = "Normalized"
    /\ ParsedDict /\ ~ResultIsDict
    /\ resp = <<PyDict(EmptyDict)>>
    /\ Len(reports) = 1

\* startup ended fatally: the camera did not open, or the token was missing
FatalStartup ==
    \/ pc = "Returned"
    \/ pc = "Crashed" /\ escaped[1].type = "ValueError"

\* C16: when the token is missing or the camera does not open, the failure is
\* reported and the loop never starts: no capture, no call, no presentation,
\* and nothing happens afterwards; the loop only ever runs with a token and an
\* opened camera.
C16_FatalReported ==
    /\ FatalStartup =>
          /\ captures = 0 /\ request = <<>> /\ call = <<>> /\ presented = <<>>
          /\ camera = "unopened"
          /\ pc = "Returned" => notice = "Camera not opened."
          /\ pc = "Crashed" =>
                escaped[1].msg = <<"HF_TOKEN not found. Check .env file.">>
    /\ token = "" => pc \in {"Load", "Crashed"}
    /\ pc \in Running \cup {"Idle", "Unwinding", "Stopped"} => camera # "unopened"
C16_FatalStartupNeverRuns ==
    [](C16_FatalReported) /\ [][~FatalStartup]_vars
C16_Witness ==
    /\ pc = "Returned"
    /\ notice = "Camera not opened."
    /\ camera = "unopened"
    /\ captures = 0

\* C17: once Ctrl+C has arrived, in whatever state of the running loop and
\* also while captures keep failing, the loop reaches Stopped; after Stopped
\* nothing happens any more.
C17_CancellationReachesStopped ==
    /\ (interruptedAt # "") ~> (pc = "Stopped")
    /\ [][pc # "Stopped"]_vars

\* C18: with the camera opened, it stays open as long as the loop runs, and
\* on every way out of the loop (Ctrl+C, or an exception that escapes) it is
\* released, exactly once.
C18_CameraReleasedOnce ==
    /\ pc \in Running \cup {"Idle", "Unwinding"} => camera = "open"
    /\ (pc = "Stopped" \/ (pc = "Crashed" /\ escaped[1].type # "ValueError")) =>
          camera = "released"
    /\ Cardinality({i \in DOMAIN stopLog : stopLog[i] = "camera"})
          = IF camera = "released" THEN 1 ELSE 0
C18_Witness ==
    /\ pc = "Crashed"
    /\ escaped[1].type = "TypeError"
    /\ camera = "released"
    /\ stopLog = <<"camera">>

====
